---------------------------- MODULE Spec2Model ----------------------------
(***************************************************************************)
(* HorizonMaps: the navigation state of the App component (the variant     *)
(* with step progression, off-route detection and automatic re-routing).   *)
(*                                                                         *)
(* React state (useState) and refs (useRef) are the variables.  A handler  *)
(* that is called from the UI reads the state of the latest render.  The   *)
(* callback handed to navigator.geolocation.watchPosition is created by    *)
(* one call of startNavigation and keeps the values of `steps`,            *)
(* `currentStep`, `route` and `dest` of the render in which that call was  *)
(* made (a JavaScript closure); only the setters with an updater function  *)
(* (setCurrentStep(i => i + 1)) read the latest state.                     *)
(*                                                                         *)
(* Geography: every position lies on one meridian and is given in metres   *)
(* north of a reference point, so that the great-circle distance between   *)
(* two positions is the absolute difference.                               *)
(*                                                                         *)
(* Specifications, all from the same initial state:                        *)
(*   Spec          the App component with re-routing                       *)
(*   SpecAnswered  the same with a service that answers every re-route     *)
(*                 request, and fairness of the fetch continuations        *)
(*   SpecOrdered   the same as Spec, with the order of the re-route        *)
(*                 requests recorded                                       *)
(*   SpecBasic     the first variant of the App (no re-routing)            *)
(*   SpecCurrent   the App of src/src/App.jsx: planning, navigation        *)
(*   SpecSuggest   the App of src/src/App.jsx: the search box              *)
(*   SpecManual    the manual variant of the App (steps by button)         *)
(*   SpecMain      the entry module main.jsx                               *)
(*   SpecWorker    the service worker                                      *)
(*   SpecShell     the desktop shell (Electron main process)               *)
(* Each moves the variables of its component and leaves the others alone.  *)
(***************************************************************************)
EXTENDS Integers, Sequences, FiniteSets

VARIABLES
    origin,         \* useState origin: a position or NULL
    dest,           \* useState dest: a position or NULL
    route,          \* useState route: the geometry (coordinates) or NULL
    steps,          \* useState steps: the maneuver locations of the steps
    currentStep,    \* useState currentStep (0-based index)
    navigating,     \* useState navigating
    watchIdRef,     \* useRef watchIdRef: a watch id or NULL
    wakeLockRef,    \* useRef wakeLockRef: TRUE when a wake lock is held
    wakeLockApi,    \* "wakeLock" in navigator (fixed for a browser)
    watches,        \* the geolocation watches registered with the browser
    pendingStarts,  \* startNavigation calls suspended at `await wakeLock.request`
    plans,          \* planRoute fetches in flight, in the order issued
    reroutes,       \* re-route fetches in flight, in the order issued
    arrived,        \* history: a sample reached the final step's target
    watchFailed,    \* history: the position source reported an error to a
                    \* watch since navigation was started (first variant)
    overtaken,      \* history: the route installed by the last answer to a
                    \* re-route request (by), and how many of the oldest
                    \* requests in flight were issued before the request of
                    \* an answer that has been applied (n)
    query,          \* useState query of src/src/App.jsx: the search box
    suggestions,    \* useState suggestions: the list offered under the box
    suggestTimerRef, \* useRef suggestTimerRef: a timer id or NULL
    timers,         \* the timeouts set and neither fired nor cleared, each
                    \* with the query it was set for and the ms it has waited
    lookups,        \* doSuggest calls waiting for the geocoder, in the order
                    \* started, each the query it asked for
    routeSummary,   \* useState routeSummary of src/src/App.jsx: <<>> for null
                    \* or <<the distance and duration of the route>>
    errorMessage,   \* useState errorMessage of src/src/App.jsx: "" for null
    env,            \* main.jsx: the build and the browser the page runs in
    mainPc,         \* main.jsx: "start", "evaluated" (module run), "loaded"
    loadListener,   \* main.jsx: the load listener that registers was added
    swRegistration, \* main.jsx: state of navigator.serviceWorker.register
    deferredPrompt, \* main.jsx: a beforeinstallprompt event is stored
    swState,        \* service worker: "parsed", "installed", "activated"
    online,         \* service worker: fetch reaches the network
    swCache,        \* service worker: the requests held by Cache Storage
    served,         \* history: the requests answered from the network so far
    response,       \* service worker: what the last fetch event was answered
    electronPc,     \* desktop shell: "off", "launching", "running", "quit"
    processPlatform, \* desktop shell: process.platform
    permissionHandler, \* desktop shell: the session has the request handler
    win,            \* desktop shell: <<>> or the window, with whether the
                    \* handler was installed when it was created
    requests        \* desktop shell: the permission requests made, each
                    \* with the values its callback was called with

\* the state of the App component
appVars == <<origin, dest, route, steps, currentStep, navigating, watchIdRef,
             wakeLockRef, wakeLockApi, watches, pendingStarts, plans, reroutes,
             arrived>>

\* the state of the entry module main.jsx
mainVars == <<env, mainPc, loadListener, swRegistration, deferredPrompt>>

\* the state of the service worker
swVars == <<swState, online, swCache, served, response>>

\* the state of the desktop shell (the Electron main process)
shellVars == <<electronPc, processPlatform, permissionHandler, win, requests>>

\* the state outside the page's App component
platform == <<mainVars, swVars, shellVars>>

\* the state that only the App component of src/src/App.jsx has
planVars == <<routeSummary, errorMessage>>

\* the state of the search box of src/src/App.jsx
suggestVars == <<query, suggestions, suggestTimerRef, timers, lookups>>

\* what the navigation handlers of the other variants of the App component do
\* not touch
outsideNav == <<suggestVars, planVars, platform>>

\* what the navigation handlers of src/src/App.jsx do not touch
outsideCurrent == <<watchFailed, overtaken, suggestVars, platform>>

\* what the handlers of the search box do not touch
outsideSuggest == <<appVars, watchFailed, overtaken, planVars, platform>>

\* what the handlers of the App component do not touch
outsideApp == <<watchFailed, overtaken, outsideNav>>

\* what main.jsx does not touch
outsideMain == <<appVars, watchFailed, overtaken, suggestVars, planVars,
                 swVars, shellVars>>

\* what the service worker does not touch
outsideWorker == <<appVars, watchFailed, overtaken, suggestVars, planVars,
                  mainVars, shellVars>>

\* what the desktop shell does not touch
outsideShell == <<appVars, watchFailed, overtaken, suggestVars, planVars,
                  mainVars, swVars>>

vars == <<appVars, outsideApp>>

\* null of a position or of a watch id (both are non-negative)
NULL == 0 - 1

\* useState route holds null or a geometry: <<>> is null, <<coords>> is the
\* geometry whose coordinates are coords
NoRoute == <<>>
Geometry(coords) == <<coords>>
coordinates(g) == g[1]

\* the initial value of the reduce over the coordinates: below it, `min` is
\* <<>> for Infinity and <<d>> for the number d
Infinity == <<>>

\* env before the page is opened
NoPage == [PROD |-> FALSE, protocol |-> "about:", navigator |-> FALSE,
           serviceWorker |-> FALSE]

\* response before the first fetch event
NoResponse == [request |-> "", result |-> "none", servedBefore |-> FALSE]

\* the permissions a page asks the desktop shell for
Permissions == {"geolocation", "media", "mediaKeySystem", "pointerLock",
                "fullscreen", "openExternal", "notifications", "midi"}

-----------------------------------------------------------------------------
(* Bounds of the model *)

MaxStepIndex == 3   \* currentStep is not advanced beyond this value
MaxInFlight == 2    \* asynchronous calls (fetches, wake lock requests) pending
MaxRequests == 1    \* requests of one permission to the desktop shell
MaxTimers == 3      \* timeouts set by the search box (timer ids 1..MaxTimers)
MaxLookups == 2     \* doSuggest calls waiting for the geocoder

(* Program constants *)

STEP_RADIUS_M == 30
OFF_ROUTE_THRESHOLD_M == 50
SUGGEST_DEBOUNCE_MS == 300
SUGGEST_LIMIT == 6

-----------------------------------------------------------------------------
(* The environment: positions the device reports, destinations the user    *)
(* picks, and the routes the directions service answers with.              *)

Positions == {0, 150, 200, 230, 260}
DevicePositions == {0}
Destinations == {200}

RouteA == [coordinates |-> <<0, 50, 100, 150, 200>>, steps |-> <<0, 100, 200>>]
RouteB == [coordinates |-> <<260, 230, 200>>, steps |-> <<260, 200>>]
RouteNoLegs == [coordinates |-> <<0, 100, 200>>, steps |-> <<>>]

Catalog == {RouteA, RouteB, RouteNoLegs}

\* json.routes[0] of a directions response for from;to, when there is one
Responses(from, to) ==
    {r \in Catalog : r.coordinates[1] = from
                     /\ r.coordinates[Len(r.coordinates)] = to}

-----------------------------------------------------------------------------
(* Pure functions *)

haversineMeters(a, b) == IF a >= b THEN a - b ELSE b - a

RECURSIVE reduceMin(_, _, _)
reduceMin(pos, coords, min) ==
    IF coords = <<>> THEN min
    ELSE LET d == haversineMeters(pos, Head(coords))
         IN  reduceMin(pos, Tail(coords),
                       IF min = Infinity \/ d < min[1] THEN <<d>> ELSE min)

\* a reduce that returns the distance to the last vertex instead of the least
minMetersLastVertex(pos, coords) ==
    IF coords = <<>> THEN Infinity
    ELSE <<haversineMeters(pos, coords[Len(coords)])>>

minMeters(pos, coords) == reduceMin(pos, coords, Infinity)

\* `minMeters > 50`; Infinity is greater than every number
exceeds(min, limit) == min = Infinity \/ min[1] > limit

\* The values a watchPosition callback keeps from the render of its call
Closure == [steps |-> steps, currentStep |-> currentStep,
            route |-> route, dest |-> dest]

\* steps[currentStep] of the closure is a step (JavaScript index, 0-based)
HasStep(c) == c.currentStep < Len(c.steps)

StepTarget(c) == c.steps[c.currentStep + 1]

\* the step test with `meters <= 30`
stepAdvancesAtRadius(c, pos) ==
    /\ Len(c.steps) > 0
    /\ HasStep(c)
    /\ haversineMeters(pos, StepTarget(c)) <= STEP_RADIUS_M
    /\ c.currentStep < Len(c.steps) - 1

\* `meters < 30 && currentStep < steps.length - 1`
stepAdvances(c, pos) ==
    /\ Len(c.steps) > 0
    /\ HasStep(c)
    /\ haversineMeters(pos, StepTarget(c)) < STEP_RADIUS_M
    /\ c.currentStep < Len(c.steps) - 1

\* `route && route.coordinates.length > 0` and `minMeters > 50`
offRoute(c, pos) ==
    /\ c.route # NoRoute
    /\ Len(coordinates(c.route)) > 0
    /\ exceeds(minMeters(pos, coordinates(c.route)), OFF_ROUTE_THRESHOLD_M)

\* navigator.geolocation.clearWatch(watchIdRef.current)
clearWatch(ws, id) == {w \in ws : w.id # id}

-----------------------------------------------------------------------------
Init ==
    /\ origin = NULL
    /\ dest = NULL
    /\ route = NoRoute
    /\ steps = <<>>
    /\ currentStep = 0
    /\ navigating = FALSE
    /\ watchIdRef = NULL
    /\ wakeLockRef = FALSE
    /\ wakeLockApi \in BOOLEAN
    /\ watches = {}
    /\ pendingStarts = {}
    /\ plans = <<>>
    /\ reroutes = <<>>
    /\ arrived = FALSE
    /\ watchFailed = FALSE
    /\ overtaken = [n |-> 0, by |-> NoRoute]
    /\ query = <<>>
    /\ suggestions = <<>>
    /\ suggestTimerRef = NULL
    /\ timers = {}
    /\ lookups = <<>>
    /\ routeSummary = <<>>
    /\ errorMessage = ""
    /\ env = NoPage
    /\ mainPc = "start"
    /\ loadListener = FALSE
    /\ swRegistration = "none"
    /\ deferredPrompt = FALSE
    /\ swState = "parsed"
    /\ online = TRUE
    /\ swCache = {}
    /\ served = {}
    /\ response = NoResponse
    /\ electronPc = "off"
    /\ processPlatform = ""
    /\ permissionHandler = FALSE
    /\ win = <<>>
    /\ requests = {}

\* the asynchronous calls that have not been answered yet
InFlight == Len(plans) + Len(reroutes) + Cardinality(pendingStarts)

RemoveAt(s, i) == [j \in 1..(Len(s) - 1) |-> IF j < i THEN s[j] ELSE s[j + 1]]

\* getCurrentPosition success callback
setOriginFromDevice ==
    /\ \E p \in DevicePositions :
           /\ origin' = p
           /\ UNCHANGED <<dest, route, steps, currentStep, navigating, watchIdRef,
                          wakeLockRef, wakeLockApi, watches, pendingStarts, plans,
                          reroutes, arrived>>
    /\ UNCHANGED outsideApp

pickSuggestion ==
    /\ \E d \in Destinations :
           /\ dest' = d
           /\ UNCHANGED <<origin, route, steps, currentStep, navigating,
                          watchIdRef, wakeLockRef, wakeLockApi, watches,
                          pendingStarts, plans, reroutes, arrived>>
    /\ UNCHANGED outsideApp

\* planRoute up to `await fetch(url)`
planRoute ==
    /\ origin # NULL
    /\ dest # NULL
    /\ InFlight < MaxInFlight
    /\ plans' = Append(plans, [from |-> origin, to |-> dest])
    /\ UNCHANGED <<origin, dest, route, steps, currentStep, navigating,
                   watchIdRef, wakeLockRef, wakeLockApi, watches,
                   pendingStarts, reroutes, arrived>>
    /\ UNCHANGED outsideApp

\* planRoute after the fetch: json.routes[0] exists
planRouteFound ==
    /\ \E i \in 1..Len(plans) :
           \E r \in Responses(plans[i].from, plans[i].to) :
               /\ route' = Geometry(r.coordinates)
               /\ steps' = r.steps
               /\ currentStep' = 0
               /\ plans' = RemoveAt(plans, i)
               /\ arrived' = FALSE
               /\ UNCHANGED <<origin, dest, navigating, watchIdRef, wakeLockRef,
                              wakeLockApi, watches, pendingStarts, reroutes>>
    /\ UNCHANGED outsideApp

\* planRoute after the fetch: no route, or the fetch failed
planRouteFailed ==
    /\ \E i \in 1..Len(plans) :
           /\ plans' = RemoveAt(plans, i)
           /\ UNCHANGED <<origin, dest, route, steps, currentStep, navigating,
                          watchIdRef, wakeLockRef, wakeLockApi, watches,
                          pendingStarts, reroutes, arrived>>
    /\ UNCHANGED outsideApp

\* startNavigation from `setNavigating(true)` on, without the clearWatch of
\* the previous watch
registerWatchKeepsPrevious(c) ==
    /\ navigating' = TRUE
    /\ LET id == CHOOSE n \in 1..(Cardinality(watches) + 1) :
                     \A w \in watches : w.id # n
       IN  /\ watches' = watches \cup {[id |-> id, c |-> c]}
           /\ watchIdRef' = id
    /\ arrived' = FALSE

\* startNavigation from `setNavigating(true)` on, with the closure c of the call
registerWatch(c) ==
    /\ navigating' = TRUE
    /\ LET cleared == IF watchIdRef # NULL THEN clearWatch(watches, watchIdRef)
                      ELSE watches
           id == CHOOSE n \in 1..(Cardinality(cleared) + 1) :
                     \A w \in cleared : w.id # n
       IN  /\ watches' = cleared \cup {[id |-> id, c |-> c]}
           /\ watchIdRef' = id
    /\ arrived' = FALSE

\* startNavigation (the button is rendered while navigating is false)
startNavigation ==
    /\ ~navigating
    /\ route # NoRoute
    /\ IF wakeLockApi /\ ~wakeLockRef
       THEN /\ InFlight < MaxInFlight
            /\ pendingStarts' = pendingStarts \cup {Closure}
            /\ UNCHANGED <<navigating, watchIdRef, watches, arrived>>
       ELSE /\ registerWatch(Closure)
            /\ UNCHANGED pendingStarts
    /\ UNCHANGED <<origin, dest, route, steps, currentStep, wakeLockRef,
                   wakeLockApi, plans, reroutes>>
    /\ UNCHANGED outsideApp

\* startNavigation resumed after `await navigator.wakeLock.request("screen")`,
\* which is taken to be granted (a rejected request leaves wakeLockRef null
\* and changes nothing else)
startNavigationResumed ==
    /\ \E c \in pendingStarts :
           /\ pendingStarts' = pendingStarts \ {c}
           /\ wakeLockRef' = TRUE
           /\ registerWatch(c)
           /\ UNCHANGED <<origin, dest, route, steps, currentStep, wakeLockApi,
                          plans, reroutes>>
    /\ UNCHANGED outsideApp

\* the sample is within the radius of the final step's target of the state
reachesFinal(pos) ==
    /\ Len(steps) > 0
    /\ currentStep = Len(steps) - 1
    /\ haversineMeters(pos, steps[Len(steps)]) < STEP_RADIUS_M

\* watchPosition success callback up to `await fetch(rUrl)`
onPosition(w, pos) ==
    /\ currentStep' = IF stepAdvances(w.c, pos) THEN currentStep + 1
                      ELSE currentStep
    /\ stepAdvances(w.c, pos) => currentStep < MaxStepIndex
    /\ IF offRoute(w.c, pos)
       THEN /\ origin' = pos
            /\ IF w.c.dest = NULL
               THEN UNCHANGED reroutes
               ELSE /\ InFlight < MaxInFlight
                    /\ reroutes' = Append(reroutes,
                                          [from |-> pos, to |-> w.c.dest])
       ELSE UNCHANGED <<origin, reroutes>>
    /\ arrived' = (arrived \/ reachesFinal(pos))
    /\ UNCHANGED <<dest, route, steps, navigating, watchIdRef, wakeLockRef,
                   wakeLockApi, watches, pendingStarts, plans>>

positionSample ==
    /\ \E w \in watches : \E pos \in Positions : onPosition(w, pos)
    /\ UNCHANGED outsideApp

\* the answer applied without `setCurrentStep(0)`
rerouteFoundKeepsIndex ==
    /\ \E i \in 1..Len(reroutes) :
           \E r \in Responses(reroutes[i].from, reroutes[i].to) :
               /\ route' = Geometry(r.coordinates)
               /\ steps' = r.steps
               /\ reroutes' = RemoveAt(reroutes, i)
               /\ arrived' = FALSE
               /\ UNCHANGED <<origin, dest, currentStep, navigating, watchIdRef,
                              wakeLockRef, wakeLockApi, watches, pendingStarts,
                              plans>>
    /\ UNCHANGED outsideApp

\* the answer to the i-th request applied without `setSteps(newSteps)`
rerouteFoundAtKeepsSteps(i) ==
    \E r \in Responses(reroutes[i].from, reroutes[i].to) :
        /\ route' = Geometry(r.coordinates)
        /\ currentStep' = 0
        /\ reroutes' = RemoveAt(reroutes, i)
        /\ arrived' = FALSE
        /\ UNCHANGED <<origin, dest, steps, navigating, watchIdRef,
                       wakeLockRef, wakeLockApi, watches, pendingStarts, plans>>

\* the callback after the fetch of the i-th request in flight: rJ.routes[0]
\* exists
rerouteFoundAt(i) ==
    \E r \in Responses(reroutes[i].from, reroutes[i].to) :
        /\ route' = Geometry(r.coordinates)
        /\ steps' = r.steps
        /\ currentStep' = 0
        /\ reroutes' = RemoveAt(reroutes, i)
        /\ arrived' = FALSE
        /\ UNCHANGED <<origin, dest, navigating, watchIdRef, wakeLockRef,
                       wakeLockApi, watches, pendingStarts, plans>>

\* the callback after the fetch: rJ.routes[0] exists
rerouteFound ==
    /\ \E i \in 1..Len(reroutes) : rerouteFoundAt(i)
    /\ UNCHANGED outsideApp

\* the callback after the fetch, clearing the route when there is no answer
rerouteFailedClearsRoute ==
    /\ \E i \in 1..Len(reroutes) :
           /\ reroutes' = RemoveAt(reroutes, i)
           /\ route' = NoRoute
           /\ steps' = <<>>
           /\ currentStep' = 0
           /\ UNCHANGED <<origin, dest, navigating, watchIdRef, wakeLockRef,
                          wakeLockApi, watches, pendingStarts, plans, arrived>>
    /\ UNCHANGED outsideApp

\* the callback after the fetch of the i-th request in flight: no route, or
\* the fetch failed
rerouteFailedAt(i) ==
    /\ reroutes' = RemoveAt(reroutes, i)
    /\ UNCHANGED <<origin, dest, route, steps, currentStep, navigating,
                   watchIdRef, wakeLockRef, wakeLockApi, watches,
                   pendingStarts, plans, arrived>>

\* the callback after the fetch: no route, or the fetch failed
rerouteFailed ==
    /\ \E i \in 1..Len(reroutes) : rerouteFailedAt(i)
    /\ UNCHANGED outsideApp

\* stopNavigation without the clearWatch call
stopEffectsKeepsWatch ==
    /\ watches' = watches
    /\ watchIdRef' = NULL
    /\ wakeLockRef' = FALSE
    /\ navigating' = FALSE

\* the body of stopNavigation
stopEffects ==
    /\ watches' = IF watchIdRef # NULL THEN clearWatch(watches, watchIdRef)
                  ELSE watches
    /\ watchIdRef' = NULL
    /\ wakeLockRef' = FALSE
    /\ navigating' = FALSE

\* stopNavigation (the button is rendered while navigating is true)
stopNavigation ==
    /\ navigating
    /\ stopEffects
    /\ UNCHANGED <<origin, dest, route, steps, currentStep, wakeLockApi,
                   pendingStarts, plans, reroutes, arrived>>
    /\ UNCHANGED outsideApp

\* watchPosition error callback
watchError ==
    /\ watches # {}
    /\ stopEffects
    /\ UNCHANGED <<origin, dest, route, steps, currentStep, wakeLockApi,
                   pendingStarts, plans, reroutes, arrived>>
    /\ UNCHANGED outsideApp

clearAll ==
    /\ origin' = NULL
    /\ dest' = NULL
    /\ route' = NoRoute
    /\ steps' = <<>>
    /\ currentStep' = 0
    /\ stopEffects
    /\ arrived' = FALSE
    /\ UNCHANGED <<wakeLockApi, pendingStarts, plans, reroutes>>
    /\ UNCHANGED outsideApp

Next ==
    \/ setOriginFromDevice
    \/ pickSuggestion
    \/ planRoute
    \/ planRouteFound
    \/ planRouteFailed
    \/ startNavigation
    \/ startNavigationResumed
    \/ positionSample
    \/ rerouteFound
    \/ rerouteFailed
    \/ stopNavigation
    \/ watchError
    \/ clearAll

Spec == Init /\ [][Next]_vars

\* The re-route requests a callback can issue
RerouteRequests == [from : Positions, to : Destinations]

\* the fetch of request q has resolved with a route and its continuation runs
rerouteAnswered(q) ==
    /\ \E i \in 1..Len(reroutes) : reroutes[i] = q /\ rerouteFoundAt(i)
    /\ UNCHANGED outsideApp

\* The app with a directions service that answers every re-route request with
\* a route, in a browser without the Wake Lock API (startNavigation does not
\* suspend)
NextAnswered ==
    \/ setOriginFromDevice
    \/ pickSuggestion
    \/ planRoute
    \/ planRouteFound
    \/ planRouteFailed
    \/ startNavigation
    \/ positionSample
    \/ rerouteFound
    \/ stopNavigation
    \/ watchError
    \/ clearAll

\* A fetch that is answered settles its promise, and the event loop runs the
\* continuation of a settled promise: each request in flight is answered.
\* The browser is one without the Wake Lock API, where startNavigation runs
\* without suspending (the suspended calls multiply the states and take no
\* part in the answer to a request).
InitAnswered == Init /\ ~wakeLockApi

SpecAnswered ==
    /\ InitAnswered
    /\ [][NextAnswered]_vars
    /\ \A q \in RerouteRequests : WF_vars(rerouteAnswered(q))

-----------------------------------------------------------------------------
(* The App component with the order of the re-route requests recorded: the *)
(* fetches are answered in any order, and `overtaken` counts the requests  *)
(* in flight that are older than one whose answer has been applied, and    *)
(* keeps the route that the last answer installed.                         *)

\* a sample is delivered; a request it issues is the newest in flight
positionSampleOrdered ==
    /\ \E w \in watches : \E pos \in Positions : onPosition(w, pos)
    /\ UNCHANGED <<watchFailed, overtaken, outsideNav>>

\* the answer to the i-th request in flight is applied: the requests before
\* it are now older than an applied one
rerouteFoundOrdered ==
    /\ \E i \in 1..Len(reroutes) :
           /\ rerouteFoundAt(i)
           /\ overtaken' = [n |-> IF i <= overtaken.n THEN overtaken.n - 1
                                  ELSE i - 1,
                            by |-> route']
    /\ UNCHANGED <<watchFailed, outsideNav>>

\* the i-th request in flight ends without a route
rerouteFailedOrdered ==
    /\ \E i \in 1..Len(reroutes) :
           /\ rerouteFailedAt(i)
           /\ overtaken' = [overtaken EXCEPT
                                !.n = IF i <= @ THEN @ - 1 ELSE @]
    /\ UNCHANGED <<watchFailed, outsideNav>>

NextOrdered ==
    \/ setOriginFromDevice
    \/ pickSuggestion
    \/ planRoute
    \/ planRouteFound
    \/ planRouteFailed
    \/ startNavigation
    \/ startNavigationResumed
    \/ positionSampleOrdered
    \/ rerouteFoundOrdered
    \/ rerouteFailedOrdered
    \/ stopNavigation
    \/ watchError
    \/ clearAll

SpecOrdered == Init /\ [][NextOrdered]_vars

-----------------------------------------------------------------------------
(* The first variant of the App component: navigation with step            *)
(* progression, without off-route detection and without a wake lock.  Its  *)
(* state originCoords, destCoords, routeData, steps, currentStepIndex,     *)
(* navigating and navWatchIdRef is held in origin, dest, route, steps,     *)
(* currentStep, navigating and watchIdRef.                                 *)

\* the centers of the suggestions offered for the origin box
OriginCenters == {0, 260}

\* selectSuggestion(sugg, isOrigin) for a suggestion that has a center
selectSuggestionBasic ==
    /\ \E isOrigin \in BOOLEAN :
           IF isOrigin
           THEN /\ \E c \in OriginCenters : origin' = c
                /\ UNCHANGED dest
           ELSE /\ \E c \in Destinations : dest' = c
                /\ UNCHANGED origin
    /\ UNCHANGED <<route, steps, currentStep, navigating, watchIdRef,
                   wakeLockRef, wakeLockApi, watches, pendingStarts, plans,
                   reroutes, arrived, watchFailed>>
    /\ UNCHANGED <<overtaken, outsideNav>>

\* planRoute up to `await fetch(url)`
planRouteBasic ==
    /\ origin # NULL
    /\ dest # NULL
    /\ InFlight < MaxInFlight
    /\ plans' = Append(plans, [from |-> origin, to |-> dest])
    /\ UNCHANGED <<origin, dest, route, steps, currentStep, navigating,
                   watchIdRef, wakeLockRef, wakeLockApi, watches,
                   pendingStarts, reroutes, arrived, watchFailed>>
    /\ UNCHANGED <<overtaken, outsideNav>>

\* planRoute after the fetch: json.routes[0] exists
planRouteBasicFound ==
    /\ \E i \in 1..Len(plans) :
           \E r \in Responses(plans[i].from, plans[i].to) :
               /\ route' = Geometry(r.coordinates)
               /\ steps' = r.steps
               /\ currentStep' = 0
               /\ plans' = RemoveAt(plans, i)
               /\ UNCHANGED <<origin, dest, navigating, watchIdRef, wakeLockRef,
                              wakeLockApi, watches, pendingStarts, reroutes,
                              arrived, watchFailed>>
    /\ UNCHANGED <<overtaken, outsideNav>>

\* planRoute after the fetch: no route, or the fetch failed
planRouteBasicFailed ==
    /\ \E i \in 1..Len(plans) :
           /\ plans' = RemoveAt(plans, i)
           /\ UNCHANGED <<origin, dest, route, steps, currentStep, navigating,
                          watchIdRef, wakeLockRef, wakeLockApi, watches,
                          pendingStarts, reroutes, arrived, watchFailed>>
    /\ UNCHANGED <<overtaken, outsideNav>>

\* startNavigation (the button is rendered while navigating is false)
startNavigationBasic ==
    /\ ~navigating
    /\ route # NoRoute
    /\ Len(steps) > 0
    /\ navigating' = TRUE
    /\ LET id == CHOOSE n \in 1..(Cardinality(watches) + 1) :
                     \A w \in watches : w.id # n
       IN  /\ watches' = watches \cup {[id |-> id, c |-> Closure]}
           /\ watchIdRef' = id
    /\ watchFailed' = FALSE
    /\ UNCHANGED <<origin, dest, route, steps, currentStep, wakeLockRef,
                   wakeLockApi, pendingStarts, plans, reroutes, arrived>>
    /\ UNCHANGED <<overtaken, outsideNav>>

\* watchPosition success callback
onPositionBasic(w, pos) ==
    /\ currentStep' = IF stepAdvances(w.c, pos) THEN currentStep + 1
                      ELSE currentStep
    /\ stepAdvances(w.c, pos) => currentStep < MaxStepIndex
    /\ UNCHANGED <<origin, dest, route, steps, navigating, watchIdRef,
                   wakeLockRef, wakeLockApi, watches, pendingStarts, plans,
                   reroutes, arrived, watchFailed>>

positionSampleBasic ==
    /\ \E w \in watches : \E pos \in Positions : onPositionBasic(w, pos)
    /\ UNCHANGED <<overtaken, outsideNav>>

\* watchPosition error callback: console.error and alert
watchErrorBasic ==
    /\ watches # {}
    /\ watchFailed' = TRUE
    /\ UNCHANGED appVars
    /\ UNCHANGED <<overtaken, outsideNav>>

\* stopNavigation (the button is rendered while navigating is true)
stopNavigationBasic ==
    /\ navigating
    /\ watches' = IF watchIdRef # NULL THEN clearWatch(watches, watchIdRef)
                  ELSE watches
    /\ watchIdRef' = NULL
    /\ navigating' = FALSE
    /\ UNCHANGED <<origin, dest, route, steps, currentStep, wakeLockRef,
                   wakeLockApi, pendingStarts, plans, reroutes, arrived,
                   watchFailed>>
    /\ UNCHANGED <<overtaken, outsideNav>>

NextBasic ==
    \/ selectSuggestionBasic
    \/ planRouteBasic
    \/ planRouteBasicFound
    \/ planRouteBasicFailed
    \/ startNavigationBasic
    \/ positionSampleBasic
    \/ watchErrorBasic
    \/ stopNavigationBasic

SpecBasic == Init /\ [][NextBasic]_vars

-----------------------------------------------------------------------------
(* The App component of src/src/App.jsx: planRoute draws the route on the  *)
(* map and reports failures in errorMessage, navigation advances the steps *)
(* without re-routing, clearRoute removes the route.  Its state            *)
(* originCoords, destCoords, routeGeoJSON, stepsList and currentStepIndex  *)
(* is held in origin, dest, route, steps and currentStep; isLoading, which *)
(* only switches the steps panel to a spinner, is not held.  The build has *)
(* a Mapbox token.                                                         *)

FailedToPlan == "Failed to plan route. Try again."

\* { distance: route.distance, duration: route.duration } of an answer: the
\* length of the route, and the time it takes at 10 m/s
Summary(r) ==
    LET d == haversineMeters(r.coordinates[1],
                             r.coordinates[Len(r.coordinates)])
    IN  [distance |-> d, duration |-> d \div 10]

\* setOriginToCurrent: getCurrentPosition answers with the device's position
setOriginToCurrent ==
    /\ \E p \in DevicePositions : origin' = p
    /\ UNCHANGED <<dest, route, steps, currentStep, navigating, watchIdRef,
                   wakeLockRef, wakeLockApi, watches, pendingStarts, plans,
                   reroutes, arrived, planVars>>
    /\ UNCHANGED outsideCurrent

\* chooseSuggestion for a suggestion with a center (its writes to the search
\* box are in the suggestion part)
chooseSuggestion ==
    /\ \E center \in Destinations : dest' = center
    /\ UNCHANGED <<origin, route, steps, currentStep, navigating, watchIdRef,
                   wakeLockRef, wakeLockApi, watches, pendingStarts, plans,
                   reroutes, arrived, planVars>>
    /\ UNCHANGED outsideCurrent

\* planRoute up to `await safeFetchJSON(url)`; without an origin or a
\* destination it alerts and returns
planRouteCurrent ==
    /\ errorMessage' = ""
    /\ IF origin = NULL \/ dest = NULL
       THEN UNCHANGED plans
       ELSE /\ InFlight < MaxInFlight
            /\ plans' = Append(plans, [from |-> origin, to |-> dest])
    /\ UNCHANGED <<origin, dest, route, steps, currentStep, navigating,
                   watchIdRef, wakeLockRef, wakeLockApi, watches,
                   pendingStarts, reroutes, arrived, routeSummary>>
    /\ UNCHANGED outsideCurrent

\* planRoute after the fetch: json.routes[0] exists.  The state is set, then
\* the route is drawn: `throw new Error("Map not ready")` when the map is
\* gone, and addSource, addLayer and fitBounds throw when Mapbox refuses
\* them; drawn is whether none of them throws
planRouteCurrentFound ==
    /\ \E i \in 1..Len(plans) :
           \E r \in Responses(plans[i].from, plans[i].to) :
               \E drawn \in BOOLEAN :
                   /\ route' = Geometry(r.coordinates)
                   /\ routeSummary' = <<Summary(r)>>
                   /\ steps' = r.steps
                   /\ currentStep' = 0
                   /\ errorMessage' = IF drawn THEN errorMessage
                                      ELSE FailedToPlan
                   /\ plans' = RemoveAt(plans, i)
    /\ UNCHANGED <<origin, dest, navigating, watchIdRef, wakeLockRef,
                   wakeLockApi, watches, pendingStarts, reroutes, arrived>>
    /\ UNCHANGED outsideCurrent

\* planRoute after the fetch: the fetch failed, or `throw new Error("No route
\* found")`
planRouteCurrentFailed ==
    /\ \E i \in 1..Len(plans) : plans' = RemoveAt(plans, i)
    /\ errorMessage' = FailedToPlan
    /\ UNCHANGED <<origin, dest, route, steps, currentStep, navigating,
                   watchIdRef, wakeLockRef, wakeLockApi, watches,
                   pendingStarts, reroutes, arrived, routeSummary>>
    /\ UNCHANGED outsideCurrent

\* startNavigation (the button is rendered while navigating is false);
\* without a route it alerts and returns
startNavigationCurrent ==
    /\ ~navigating
    /\ route # NoRoute
    /\ navigating' = TRUE
    /\ LET cleared == IF watchIdRef # NULL THEN clearWatch(watches, watchIdRef)
                      ELSE watches
           id == CHOOSE n \in 1..(Cardinality(cleared) + 1) :
                     \A w \in cleared : w.id # n
       IN  /\ watches' = cleared \cup {[id |-> id, c |-> Closure]}
           /\ watchIdRef' = id
    /\ UNCHANGED <<origin, dest, route, steps, currentStep, wakeLockRef,
                   wakeLockApi, pendingStarts, plans, reroutes, arrived,
                   planVars>>
    /\ UNCHANGED outsideCurrent

\* watchPosition success callback: `stepsList[currentStepIndex]` of the
\* closure, `meters < 30 && currentStepIndex < stepsList.length - 1`
onPositionCurrent(w, pos) ==
    /\ currentStep' = IF stepAdvances(w.c, pos) THEN currentStep + 1
                      ELSE currentStep
    /\ stepAdvances(w.c, pos) => currentStep < MaxStepIndex
    /\ UNCHANGED <<origin, dest, route, steps, navigating, watchIdRef,
                   wakeLockRef, wakeLockApi, watches, pendingStarts, plans,
                   reroutes, arrived, planVars>>

positionSampleCurrent ==
    /\ \E w \in watches : \E pos \in Positions : onPositionCurrent(w, pos)
    /\ UNCHANGED outsideCurrent

\* the body of stopNavigation
stopEffectsCurrent ==
    /\ watches' = IF watchIdRef # NULL THEN clearWatch(watches, watchIdRef)
                  ELSE watches
    /\ watchIdRef' = NULL
    /\ navigating' = FALSE

\* stopNavigation (the button is rendered while navigating is true)
stopNavigationCurrent ==
    /\ navigating
    /\ stopEffectsCurrent
    /\ UNCHANGED <<origin, dest, route, steps, currentStep, wakeLockRef,
                   wakeLockApi, pendingStarts, plans, reroutes, arrived,
                   planVars>>
    /\ UNCHANGED outsideCurrent

\* watchPosition error callback: alert and stopNavigation()
watchErrorCurrent ==
    /\ watches # {}
    /\ stopEffectsCurrent
    /\ UNCHANGED <<origin, dest, route, steps, currentStep, wakeLockRef,
                   wakeLockApi, pendingStarts, plans, reroutes, arrived,
                   planVars>>
    /\ UNCHANGED outsideCurrent

\* clearRoute (its button is always rendered)
clearRouteCurrent ==
    /\ route' = NoRoute
    /\ routeSummary' = <<>>
    /\ steps' = <<>>
    /\ currentStep' = 0
    /\ UNCHANGED <<origin, dest, navigating, watchIdRef, wakeLockRef,
                   wakeLockApi, watches, pendingStarts, plans, reroutes,
                   arrived, errorMessage>>
    /\ UNCHANGED outsideCurrent

\* the Dismiss button of the error banner
dismissError ==
    /\ errorMessage # ""
    /\ errorMessage' = ""
    /\ UNCHANGED <<appVars, routeSummary>>
    /\ UNCHANGED outsideCurrent

NextCurrent ==
    \/ setOriginToCurrent
    \/ chooseSuggestion
    \/ planRouteCurrent
    \/ planRouteCurrentFound
    \/ planRouteCurrentFailed
    \/ startNavigationCurrent
    \/ positionSampleCurrent
    \/ stopNavigationCurrent
    \/ watchErrorCurrent
    \/ clearRouteCurrent
    \/ dismissError

SpecCurrent == Init /\ [][NextCurrent]_vars

-----------------------------------------------------------------------------
(* The search box of src/src/App.jsx: onQueryChange schedules doSuggest    *)
(* after SUGGEST_DEBOUNCE_MS, doSuggest asks the geocoder and builds the   *)
(* list of suggestions.  A JavaScript string is the sequence of its        *)
(* characters, so that toLowerCase, includes and trim are computed.  The   *)
(* build has a Mapbox token.  chooseSuggestion, which empties the list and *)
(* writes the chosen name into the box without scheduling a lookup, is not *)
(* part of it.                                                             *)

MAJOR_COLOMBIAN_CITIES ==
    <<<<"B", "o", "g", "o", "t", "á">>,
      <<"M", "e", "d", "e", "l", "l", "í", "n">>,
      <<"C", "a", "l", "i">>,
      <<"C", "a", "r", "t", "a", "g", "e", "n", "a">>,
      <<"B", "a", "r", "r", "a", "n", "q", "u", "i", "l", "l", "a">>,
      <<"B", "u", "c", "a", "r", "a", "m", "a", "n", "g", "a">>,
      <<"S", "a", "n", "t", "a", " ", "M", "a", "r", "t", "a">>,
      <<"P", "e", "r", "e", "i", "r", "a">>,
      <<"M", "a", "n", "i", "z", "a", "l", "e", "s">>,
      <<"V", "i", "l", "l", "a", "v", "i", "c", "e", "n", "c", "i", "o">>,
      <<"C", "ú", "c", "u", "t", "a">>,
      <<"I", "b", "a", "g", "u", "é">>,
      <<"S", "i", "n", "c", "e", "l", "e", "j", "o">>>>

UpperCase == <<"A", "B", "C", "D", "E", "F", "G", "H", "I", "J", "K", "L", "M",
               "N", "O", "P", "Q", "R", "S", "T", "U", "V", "W", "X", "Y", "Z">>
LowerCase == <<"a", "b", "c", "d", "e", "f", "g", "h", "i", "j", "k", "l", "m",
               "n", "o", "p", "q", "r", "s", "t", "u", "v", "w", "x", "y", "z">>

\* String.prototype.toLowerCase: the accented letters of the names are lower
\* case already
toLowerCase(str) ==
    [k \in 1..Len(str) |->
        IF \E u \in 1..Len(UpperCase) : UpperCase[u] = str[k]
        THEN LowerCase[CHOOSE u \in 1..Len(UpperCase) : UpperCase[u] = str[k]]
        ELSE str[k]]

\* String.prototype.includes
includes(str, sub) ==
    \E k \in 0..(Len(str) - Len(sub)) : SubSeq(str, k + 1, k + Len(sub)) = sub

\* String.prototype.trim
RECURSIVE trim(_)
trim(str) ==
    IF str = <<>> THEN str
    ELSE IF Head(str) = " " THEN trim(Tail(str))
    ELSE IF str[Len(str)] = " " THEN trim(SubSeq(str, 1, Len(str) - 1))
    ELSE str

\* Array.prototype.slice(0, n)
slice(list, n) == SubSeq(list, 1, IF Len(list) < n THEN Len(list) ELSE n)

\* ({ id: `city-${c}`, place_name: `${c}, Colombia`, center: null })
cityEntry(c) ==
    [id |-> <<"c", "i", "t", "y", "-">> \o c,
     place_name |-> c \o <<",", " ", "C", "o", "l", "o", "m", "b", "i", "a">>,
     center |-> NULL]

\* MAJOR_COLOMBIAN_CITIES.filter(...).map(...)
cityMatches(queryText) ==
    LET matches(c) == includes(toLowerCase(c), toLowerCase(queryText))
        found == SelectSeq(MAJOR_COLOMBIAN_CITIES, matches)
    IN  [k \in 1..Len(found) |-> cityEntry(found[k])]

\* the list with the geocoder's features before the cities
combinedFeaturesFirst(queryText, features) ==
    LET cities == cityMatches(queryText)
        fresh(f) == ~\E k \in 1..Len(cities) :
                         cities[k].place_name = f.place_name
    IN  slice(SelectSeq(features, fresh) \o cities, SUGGEST_LIMIT)

\* [...cityMatches, ...features.filter(...)].slice(0, SUGGEST_LIMIT)
combined(queryText, features) ==
    LET cities == cityMatches(queryText)
        fresh(f) == ~\E k \in 1..Len(cities) :
                         cities[k].place_name = f.place_name
    IN  slice(cities \o SelectSeq(features, fresh), SUGGEST_LIMIT)

\* what the user types into the box
Queries == {<<"c">>, <<" ", "a">>, <<"c", "a">>, <<"C", "a", "l">>}

\* a feature of the geocoder
Feature(n, name) ==
    [id |-> <<"p", "l", "a", "c", "e", ".", n>>, place_name |-> name,
     center |-> 200]

CaliColombia == cityEntry(MAJOR_COLOMBIAN_CITIES[3]).place_name
CartagenaColombia == cityEntry(MAJOR_COLOMBIAN_CITIES[4]).place_name

\* json.features of the answers the geocoder gives to a query (at most
\* SUGGEST_LIMIT features, as `limit` asks)
GeocoderAnswers(queryText) ==
    IF queryText = <<"c", "a">>
    THEN {<<Feature("1", CaliColombia),
            Feature("2", <<"C", "a", "j", "i", "c", "á">>),
            Feature("3", CartagenaColombia),
            Feature("4", <<"C", "a", "l", "a", "r", "c", "á">>),
            Feature("5", <<"C", "a", "l", "d", "a", "s">>),
            Feature("6", <<"C", "a", "r", "t", "a", "g", "o">>)>>,
          <<>>}
    ELSE IF queryText = <<"C", "a", "l">>
    THEN {<<Feature("4", <<"C", "a", "l", "a", "r", "c", "á">>),
            Feature("1", CaliColombia),
            Feature("7", <<"c", "a", "l", "i", ",", " ", "c", "o", "l", "o", "m", "b", "i", "a">>)>>}
    ELSE {<<>>}

TickMs == 100       \* the step in which time passes

\* clearTimeout(id)
clearTimeout(ts, id) == {t \in ts : t.id # id}

\* scheduleSuggest without the clearTimeout
scheduleSuggestKeepsTimer(q) ==
    LET id == IF suggestTimerRef = NULL THEN 1 ELSE suggestTimerRef + 1
    IN  /\ id <= MaxTimers
        /\ timers' = timers \cup {[id |-> id, q |-> q, waited |-> 0]}
        /\ suggestTimerRef' = id

\* scheduleSuggest: clearTimeout, then setTimeout (timer ids grow)
scheduleSuggest(q) ==
    LET id == IF suggestTimerRef = NULL THEN 1 ELSE suggestTimerRef + 1
    IN  /\ id <= MaxTimers
        /\ timers' = clearTimeout(timers, suggestTimerRef)
                          \cup {[id |-> id, q |-> q, waited |-> 0]}
        /\ suggestTimerRef' = id

\* the input's onChange
onQueryChange ==
    /\ \E v \in Queries :
           /\ query' = v
           /\ scheduleSuggest(v)
    /\ UNCHANGED <<suggestions, lookups>>
    /\ UNCHANGED outsideSuggest

\* TickMs pass while a timeout waits; a timeout that is due fires before
\* more time passes
tick ==
    /\ timers # {}
    /\ \A t \in timers : t.waited < SUGGEST_DEBOUNCE_MS
    /\ timers' = {[t EXCEPT !.waited = @ + TickMs] : t \in timers}
    /\ UNCHANGED <<query, suggestions, suggestTimerRef, lookups>>
    /\ UNCHANGED outsideSuggest

\* doSuggest(queryText) up to `await safeFetchJSON(url)`
doSuggest(queryText) ==
    IF Len(trim(queryText)) < 2
    THEN /\ suggestions' = <<>>
         /\ UNCHANGED lookups
    ELSE /\ Len(lookups) < MaxLookups
         /\ lookups' = Append(lookups, queryText)
         /\ UNCHANGED suggestions

\* a timeout is due: `() => doSuggest(q)` runs
timerFires ==
    /\ \E t \in timers :
           /\ t.waited >= SUGGEST_DEBOUNCE_MS
           /\ timers' = timers \ {t}
           /\ doSuggest(t.q)
    /\ UNCHANGED <<query, suggestTimerRef>>
    /\ UNCHANGED outsideSuggest

\* doSuggest after the fetch of the i-th call waiting, answered with features
doSuggestResolvedWith(i, features) ==
    /\ suggestions' = combined(lookups[i], features)
    /\ lookups' = RemoveAt(lookups, i)
    /\ UNCHANGED <<query, suggestTimerRef, timers>>

\* doSuggest after the fetch: the geocoder answered
doSuggestResolved ==
    /\ \E i \in 1..Len(lookups) :
           \E features \in GeocoderAnswers(lookups[i]) :
               doSuggestResolvedWith(i, features)
    /\ UNCHANGED outsideSuggest

\* doSuggest after the fetch: the fetch failed, catch
doSuggestFailed ==
    /\ \E i \in 1..Len(lookups) : lookups' = RemoveAt(lookups, i)
    /\ suggestions' = <<>>
    /\ UNCHANGED <<query, suggestTimerRef, timers>>
    /\ UNCHANGED outsideSuggest

NextSuggest ==
    \/ onQueryChange
    \/ tick
    \/ timerFires
    \/ doSuggestResolved
    \/ doSuggestFailed

SpecSuggest == Init /\ [][NextSuggest]_vars

-----------------------------------------------------------------------------
(* The manual variant of the App component: the user walks through the     *)
(* steps with a button, no position is watched.  Its state origin,         *)
(* destination, route (the coordinates of the route, [] when there is      *)
(* none), steps, currentStep and isNavigating is held in origin, dest,     *)
(* route, steps, currentStep and navigating; plans holds the getRoute      *)
(* calls waiting for their fetch.                                          *)

\* handleLocate: getCurrentPosition answers with the device's position
handleLocate ==
    /\ \E p \in DevicePositions : origin' = p
    /\ UNCHANGED <<dest, route, steps, currentStep, navigating, watchIdRef,
                   wakeLockRef, wakeLockApi, watches, pendingStarts, plans,
                   reroutes, arrived, watchFailed>>
    /\ UNCHANGED <<overtaken, outsideNav>>

\* handleFindPlaces with both queries geocoded (from, to), up to the fetch of
\* getRoute(from, to); when a query is not found it only alerts
handleFindPlaces ==
    /\ InFlight < MaxInFlight
    /\ \E from \in OriginCenters : \E to \in Destinations :
           /\ origin' = from
           /\ dest' = to
           /\ plans' = Append(plans, [from |-> from, to |-> to])
    /\ UNCHANGED <<route, steps, currentStep, navigating, watchIdRef,
                   wakeLockRef, wakeLockApi, watches, pendingStarts, reroutes,
                   arrived, watchFailed>>
    /\ UNCHANGED <<overtaken, outsideNav>>

\* getRoute after the fetch: data.routes[0].legs[0].steps exists
getRoute ==
    /\ \E i \in 1..Len(plans) :
           \E r \in Responses(plans[i].from, plans[i].to) :
               /\ Len(r.steps) > 0
               /\ route' = Geometry(r.coordinates)
               /\ steps' = r.steps
               /\ plans' = RemoveAt(plans, i)
               /\ UNCHANGED <<origin, dest, currentStep, navigating, watchIdRef,
                              wakeLockRef, wakeLockApi, watches, pendingStarts,
                              reroutes, arrived, watchFailed>>
    /\ UNCHANGED <<overtaken, outsideNav>>

\* getRoute after the fetch: the fetch is rejected, or data.routes[0] or its
\* legs[0] is missing and the property access throws
getRouteThrows ==
    /\ \E i \in 1..Len(plans) :
           /\ plans' = RemoveAt(plans, i)
           /\ UNCHANGED <<origin, dest, route, steps, currentStep, navigating,
                          watchIdRef, wakeLockRef, wakeLockApi, watches,
                          pendingStarts, reroutes, arrived, watchFailed>>
    /\ UNCHANGED <<overtaken, outsideNav>>

\* handleNavigate (the button is disabled while steps is empty)
handleNavigate ==
    /\ Len(steps) > 0
    /\ IF currentStep >= Len(steps) - 1
       THEN /\ navigating' = FALSE
            /\ UNCHANGED currentStep
       ELSE /\ navigating' = TRUE
            /\ currentStep' = currentStep + 1
    /\ UNCHANGED <<origin, dest, route, steps, watchIdRef, wakeLockRef,
                   wakeLockApi, watches, pendingStarts, plans, reroutes,
                   arrived, watchFailed>>
    /\ UNCHANGED <<overtaken, outsideNav>>

clearRoute ==
    /\ route' = NoRoute
    /\ steps' = <<>>
    /\ currentStep' = 0
    /\ origin' = NULL
    /\ dest' = NULL
    /\ navigating' = FALSE
    /\ UNCHANGED <<watchIdRef, wakeLockRef, wakeLockApi, watches,
                   pendingStarts, plans, reroutes, arrived, watchFailed>>
    /\ UNCHANGED <<overtaken, outsideNav>>

NextManual ==
    \/ handleLocate
    \/ handleFindPlaces
    \/ getRoute
    \/ getRouteThrows
    \/ handleNavigate
    \/ clearRoute

SpecManual == Init /\ [][NextManual]_vars

-----------------------------------------------------------------------------
(* The entry module main.jsx: it decides whether the service worker is     *)
(* registered, stores the install prompt and renders the App.              *)

\* window.location.protocol of the pages the app is served from
Protocols == {"http:", "https:", "file:", "capacitor:"}

\* import.meta.env.PROD, window.location.protocol, whether `navigator` is
\* defined and whether "serviceWorker" is in it
Envs ==
    {e \in [PROD : BOOLEAN, protocol : Protocols, navigator : BOOLEAN,
            serviceWorker : BOOLEAN] : e.serviceWorker => e.navigator}

isSecureContextAndProd(e) ==
    (e.PROD = TRUE \/ e.protocol = "https:") /\ e.navigator

\* the module body: the listeners are added and the App is rendered
main ==
    /\ mainPc = "start"
    /\ \E e \in Envs :
           /\ env' = e
           /\ loadListener' = (isSecureContextAndProd(e) /\ e.serviceWorker)
    /\ mainPc' = "evaluated"
    /\ UNCHANGED <<swRegistration, deferredPrompt>>
    /\ UNCHANGED outsideMain

\* the beforeinstallprompt listener
beforeinstallprompt ==
    /\ mainPc # "start"
    /\ deferredPrompt' = TRUE
    /\ UNCHANGED <<env, mainPc, loadListener, swRegistration>>
    /\ UNCHANGED outsideMain

\* the load event: the listener, when added, calls register("/sw.js")
load ==
    /\ mainPc = "evaluated"
    /\ mainPc' = "loaded"
    /\ swRegistration' = IF loadListener THEN "requested" ELSE swRegistration
    /\ UNCHANGED <<env, loadListener, deferredPrompt>>
    /\ UNCHANGED outsideMain

\* `await navigator.serviceWorker.register` resolves, or rejects into the catch
registerSettled ==
    /\ swRegistration = "requested"
    /\ \E ok \in BOOLEAN :
           swRegistration' = IF ok THEN "registered" ELSE "failed"
    /\ UNCHANGED <<env, mainPc, loadListener, deferredPrompt>>
    /\ UNCHANGED outsideMain

NextMain ==
    \/ main
    \/ beforeinstallprompt
    \/ load
    \/ registerSettled

SpecMain == Init /\ [][NextMain]_vars

-----------------------------------------------------------------------------
(* The service worker: network first, the cache when the network fails.    *)

\* the requests of the page: the document, a bundle, a map tile, a font
Requests == {"/index.html", "/assets/index.js", "/tiles/1/2/3", "/fonts/a.pbf"}

\* the install listener: self.skipWaiting()
install ==
    /\ swState = "parsed"
    /\ swState' = "installed"
    /\ UNCHANGED <<online, swCache, served, response>>
    /\ UNCHANGED outsideWorker

\* the activate listener: clients.claim()
activate ==
    /\ swState = "installed"
    /\ swState' = "activated"
    /\ UNCHANGED <<online, swCache, served, response>>
    /\ UNCHANGED outsideWorker

\* the device gains or loses its connection
connectivityChange ==
    /\ online' = ~online
    /\ UNCHANGED <<swState, swCache, served, response>>
    /\ UNCHANGED outsideWorker

\* caches.match(request): the cached response, or undefined
cachesMatch(request) == IF request \in swCache THEN "cache" ELSE "error"

\* event.respondWith(fetch(event.request).catch(() => caches.match(...)))
respondWith(request) ==
    /\ response' = [request |-> request,
                    result |-> IF online THEN "network"
                               ELSE cachesMatch(request),
                    servedBefore |-> request \in served]
    /\ served' = IF online THEN served \cup {request} ELSE served
    /\ UNCHANGED swCache

\* the fetch listener
fetchEvent ==
    /\ swState = "activated"
    /\ \E request \in Requests : respondWith(request)
    /\ UNCHANGED <<swState, online>>
    /\ UNCHANGED outsideWorker

NextWorker ==
    \/ install
    \/ activate
    \/ connectivityChange
    \/ fetchEvent

SpecWorker == Init /\ [][NextWorker]_vars

-----------------------------------------------------------------------------
(* The desktop shell: the Electron main process.                           *)

Platforms == {"darwin", "win32", "linux"}

allowedPermissions == {"geolocation", "media", "mediaKeySystem", "pointerLock",
                       "fullscreen", "openExternal"}

\* a handler that grants whatever is asked
grantEverything(permission) == <<TRUE>>

\* the permission request handler: the values it calls `callback` with
permissionRequestHandler(permission) ==
    IF permission \in allowedPermissions THEN <<TRUE>> ELSE <<FALSE>>

\* createWindow, called when the handler is installed or not
createWindow(handlerInstalled) ==
    win' = <<[handlerInstalled |-> handlerInstalled]>>

\* the main process is started
launch ==
    /\ electronPc = "off"
    /\ electronPc' = "launching"
    /\ \E p \in Platforms : processPlatform' = p
    /\ UNCHANGED <<permissionHandler, win, requests>>
    /\ UNCHANGED outsideShell

\* app.whenReady().then(...): the handler is set, then the window is created
whenReady ==
    /\ electronPc = "launching"
    /\ electronPc' = "running"
    /\ permissionHandler' = TRUE
    /\ createWindow(TRUE)
    /\ UNCHANGED <<processPlatform, requests>>
    /\ UNCHANGED outsideShell

\* the page of the window asks for a permission
permissionRequest ==
    /\ electronPc = "running"
    /\ win # <<>>
    /\ \E permission \in Permissions :
           LET n == Cardinality({r \in requests : r.permission = permission})
           IN  /\ n < MaxRequests
               /\ requests' = requests \cup
                      {[permission |-> permission, n |-> n + 1,
                        answers |-> IF permissionHandler
                                    THEN permissionRequestHandler(permission)
                                    ELSE <<TRUE>>]}
    /\ UNCHANGED <<electronPc, processPlatform, permissionHandler, win>>
    /\ UNCHANGED outsideShell

\* the user closes the window: 'window-all-closed'
windowAllClosed ==
    /\ electronPc = "running"
    /\ win # <<>>
    /\ win' = <<>>
    /\ electronPc' = IF processPlatform # "darwin" THEN "quit" ELSE electronPc
    /\ UNCHANGED <<processPlatform, permissionHandler, requests>>
    /\ UNCHANGED outsideShell

\* 'activate' (the dock icon on macOS)
activateApp ==
    /\ electronPc = "running"
    /\ processPlatform = "darwin"
    /\ IF win = <<>> THEN createWindow(permissionHandler) ELSE UNCHANGED win
    /\ UNCHANGED <<electronPc, processPlatform, permissionHandler, requests>>
    /\ UNCHANGED outsideShell

NextShell ==
    \/ launch
    \/ whenReady
    \/ permissionRequest
    \/ windowAllClosed
    \/ activateApp

SpecShell == Init /\ [][NextShell]_vars

-----------------------------------------------------------------------------
(* Notions the claims are stated with *)

\* the step advanced by one sample; a re-route request was issued by it
IndexMoved == currentStep' # currentStep
RequestIssued == Len(reroutes') = Len(reroutes) + 1

\* pos is within the step radius of the target of the state's current step
NearCurrentTarget(pos) ==
    /\ currentStep < Len(steps)
    /\ haversineMeters(pos, steps[currentStep + 1]) < STEP_RADIUS_M

\* pos is farther than the threshold from every vertex of the state's route
OffActiveRoute(pos) ==
    /\ route # NoRoute
    /\ exceeds(minMeters(pos, coordinates(route)), OFF_ROUTE_THRESHOLD_M)

\* the state's route and steps are those of one answer of the service
RouteOf(r) == route = Geometry(r.coordinates) /\ steps = r.steps

\* pos is at exactly the step radius from the step target the callback of
\* closure c compares with; at exactly the off-route threshold from the
\* nearest vertex of the route it compares with
AtStepRadius(c, pos) ==
    /\ Len(c.steps) > 0
    /\ HasStep(c)
    /\ haversineMeters(pos, StepTarget(c)) = STEP_RADIUS_M

AtOffRouteThreshold(c, pos) ==
    /\ c.route # NoRoute
    /\ minMeters(pos, coordinates(c.route)) = <<OFF_ROUTE_THRESHOLD_M>>

\* a watch whose callback was created for another route than the state's
StaleWatch == \E w \in watches : w.c.route # route

-----------------------------------------------------------------------------
\* C1: whenever the steps list is non-empty, currentStep is a valid index
\* into it: 0 <= currentStep <= steps.length - 1.
C1_StepIndexValid ==
    Len(steps) > 0 => (0 <= currentStep /\ currentStep <= Len(steps) - 1)

\* C2: the index moves from i to i+1 only by a sample within the step radius
\* of step i's target with i < N-1, so that samples which stay near step i's
\* target (and away from the later targets) advance it exactly once.
C2_AdvanceOnlyNearCurrentTarget ==
    [][(positionSample /\ IndexMoved) =>
          \E w \in watches : \E pos \in Positions :
              /\ onPosition(w, pos)
              /\ currentStep' = currentStep + 1
              /\ currentStep < Len(steps) - 1
              /\ NearCurrentTarget(pos)]_vars

\* C3: a step that installs another route while the app is navigating leaves
\* currentStep at 0, the steps list that of the new route, and the app
\* navigating with its geolocation watch.
C3_ReplaceResetsIndex ==
    [][(navigating /\ route' # route /\ route' # NoRoute) =>
          /\ currentStep' = 0
          /\ \E r \in Catalog : route' = Geometry(r.coordinates)
                                /\ steps' = r.steps
          /\ navigating'
          /\ watches' = watches
          /\ watchIdRef' = watchIdRef]_vars

C3_Witness ==
    /\ navigating
    /\ RouteOf(RouteB)
    /\ currentStep = 0
    /\ \E w \in watches : w.c.route = Geometry(RouteA.coordinates)
                          /\ w.c.currentStep > 0

\* C4: once a sample has come within the radius of the final step's target,
\* no sample advances the step or requests a re-route until navigation is
\* started again or the route is replaced.
C4_ArrivedIsFinal ==
    [][(arrived /\ positionSample) => (~IndexMoved /\ ~RequestIssued)]_vars

\* C5: no position sample both advances the step and is off-route: for every
\* registered watch and every position, the two conditions of the callback
\* exclude each other.
C5_OneOutcome ==
    \A w \in watches : \A pos \in Positions :
        ~(stepAdvances(w.c, pos) /\ offRoute(w.c, pos))

C5_Witness ==
    /\ navigating
    /\ currentStep > 0
    /\ reroutes # <<>>
    /\ \E w \in watches : \E p, q \in Positions :
           stepAdvances(w.c, p) /\ offRoute(w.c, q)

\* C6: while a route is active, a sample delivered to a callback that has a
\* destination requests a re-route (from its position to that destination)
\* if and only if it is farther than the off-route threshold from every
\* vertex of the active route.
C6_OffRouteIffFarFromActiveRoute ==
    [][(positionSample /\ route # NoRoute) =>
          \E w \in watches : \E pos \in Positions :
              /\ onPosition(w, pos)
              /\ w.c.dest # NULL =>
                    (OffActiveRoute(pos) <=>
                       /\ RequestIssued
                       /\ reroutes'[Len(reroutes')] =
                              [from |-> pos, to |-> w.c.dest])
      ]_vars

\* C7: when navigation is not active (after stopNavigation, and until a
\* startNavigation registers a watch again) no geolocation watch is
\* registered, so no position sample is delivered and none changes
\* currentStep, the route or the steps, or requests a re-route.
C7_StoppedNoWatch ==
    ~navigating => (watches = {} /\ watchIdRef = NULL /\ ~ENABLED positionSample)

C7_Witness ==
    /\ ~navigating
    /\ watches = {}
    /\ route # NoRoute
    /\ currentStep > 0
    /\ pendingStarts = {}

\* C8: while navigation is not active, the answer to a re-route request
\* changes neither the route, the steps list nor currentStep.
C8_LateRerouteIgnored ==
    [][(~navigating /\ Len(reroutes') < Len(reroutes)) =>
          UNCHANGED <<route, steps, currentStep>>]_vars

\* C9: an answer (to planRoute or to a re-route request) whose steps list is
\* empty leaves the route, the steps list and currentStep unchanged.
C9_EmptyRouteRejected ==
    [][((Len(plans') < Len(plans) \/ Len(reroutes') < Len(reroutes))
        /\ route # NoRoute /\ steps' = <<>>) =>
          UNCHANGED <<route, steps, currentStep>>]_vars

\* C10: startNavigation called with an empty steps list registers no
\* geolocation watch: every registered watch was created with steps.
C10_NoWatchWithoutSteps ==
    \A w \in watches : Len(w.c.steps) > 0

\* C11: every step by which startNavigation takes effect (navigating becomes
\* true and the watch is registered) leaves navigating true and currentStep
\* at 0, also when navigation was stopped before on the same route.
C11_StartAtFirstStep ==
    [][(~navigating /\ navigating') => (navigating' /\ currentStep' = 0)]_vars

\* C12: the callback of a re-route request that failed or was answered without
\* a route leaves the route, the steps list and currentStep as they are, and
\* the app navigating with its geolocation watch.
C12_FailedRerouteKeepsRoute ==
    [][rerouteFailed =>
          UNCHANGED <<route, steps, currentStep, navigating, watches,
                      watchIdRef>>]_vars

\* navigating on RouteA past its first step, after a sample at 260 m asked for
\* a re-route that is no longer in flight and installed no route
C12_Witness ==
    /\ navigating
    /\ RouteOf(RouteA)
    /\ currentStep > 0
    /\ origin = 260
    /\ reroutes = <<>>
    /\ plans = <<>>
    /\ \E w \in watches : w.id = watchIdRef /\ w.c.dest # NULL

\* C13: once the position source has reported an error to a watch of the
\* running navigation, navigation is stopped: navigating is false and no
\* geolocation watch is registered.
C13_WatchErrorStops ==
    watchFailed => (~navigating /\ watches = {} /\ watchIdRef = NULL)

\* C14: the thresholds are compared strictly: a sample at exactly the step
\* radius from the step target the callback compares with does not advance
\* the step, and a sample at exactly the off-route threshold from the nearest
\* vertex of the route it compares with requests no re-route and does not
\* move the origin (no step that moves the index, issues a request or moves
\* the origin is the callback's step for such a sample).
C14_StrictThresholds ==
    [][/\ IndexMoved =>
              \A w \in watches : \A pos \in Positions :
                  AtStepRadius(w.c, pos) => ~onPosition(w, pos)
       /\ (RequestIssued \/ origin' # origin) =>
              \A w \in watches : \A pos \in Positions :
                  AtOffRouteThreshold(w.c, pos) => ~onPosition(w, pos)]_vars

\* a running watch that has a position at exactly the step radius from its
\* target, which is not the last step, and a position at exactly the threshold
\* from its route
C14_Witness ==
    /\ navigating
    /\ \E w \in watches :
           /\ w.id = watchIdRef
           /\ w.c.currentStep < Len(w.c.steps) - 1
           /\ \E p \in Positions : AtStepRadius(w.c, p)
           /\ \E q \in Positions : AtOffRouteThreshold(w.c, q)

\* C15: in the manual variant, a getRoute that installs a route leaves
\* currentStep at 0, a valid index into the new steps list.
C15_GetRouteResetsStep ==
    [][getRoute => (currentStep' = 0 /\ currentStep' <= Len(steps') - 1)]_vars

\* C16: a registration of the service worker is attempted only in a
\* production build that runs under an https origin.
C16_RegisterOnlySecureProd ==
    swRegistration # "none" => (env.PROD /\ env.protocol = "https:")

\* C17: a fetch event for a request that was answered from the network before,
\* and whose fetch now fails, is answered from the cache.
C17_OfflineFromCache ==
    (response.servedBefore /\ response.result # "network") =>
        response.result = "cache"

C19_SamplesCheckedAgainstNewRoute ==
    [][rerouteFound =>
          \A w \in watches' : w.c.route = route' /\ w.c.steps = steps']_vars

\* C20: when a sample was off-route and its request is answered with a route,
\* then eventually the active route and the steps list are those of an answer
\* to that request, with currentStep 0.
C20_RerouteEventuallyApplied ==
    \A q \in RerouteRequests :
        (\E i \in 1..Len(reroutes) : reroutes[i] = q)
            ~> (\E r \in Responses(q.from, q.to) : RouteOf(r) /\ currentStep = 0)

\* a request is in flight while the app navigates past the first step
C20_Witness ==
    /\ navigating
    /\ currentStep > 0
    /\ reroutes # <<>>
    /\ RouteOf(RouteA)

\* C21: at most one re-route request is in flight at any time: while one is
\* in flight, a further off-route sample issues no other.
C21_OneRerouteInFlight ==
    Len(reroutes) <= 1

\* C22: the answer to a re-route request never replaces the route that the
\* answer to a request issued after it has installed: while the route is the
\* one installed by the last answer applied, a step that applies the answer
\* to a request issued before the request of that answer leaves the route as
\* it is.
C22_OlderAnswerNeverOverwrites ==
    [][\A i \in 1..Len(reroutes) :
           (i <= overtaken.n /\ route = overtaken.by /\ rerouteFoundAt(i))
               => route' = route]_vars

\* C23: at most one geolocation watch is registered, it is the one watchIdRef
\* names, and navigating is true exactly when watchIdRef is non-null, after
\* every handler and continuation (startNavigation, also called again while a
\* call is suspended, stopNavigation, the watch error callback).
C23_OneWatchIffNavigating ==
    /\ Cardinality(watches) <= 1
    /\ \A w \in watches : w.id = watchIdRef
    /\ navigating <=> watchIdRef # NULL
    /\ watchIdRef # NULL => \E w \in watches : w.id = watchIdRef

\* navigating with a watch, a wake lock held and another startNavigation call
\* still suspended
C23_Witness ==
    /\ navigating
    /\ watchIdRef # NULL
    /\ Cardinality(watches) = 1
    /\ wakeLockRef
    /\ pendingStarts # {}

\* C24: whenever the app is navigating a route is planned (routeGeoJSON is
\* not null), whatever the order of planRoute, startNavigation, clearRoute
\* and stopNavigation.
C24_NavigatingHasRoute ==
    navigating => route # NoRoute

\* C25: a planRoute call that ends by setting the 'Failed to plan route'
\* message leaves routeGeoJSON, routeSummary, stepsList and currentStepIndex
\* as they were before the call's answer.
C25_FailedPlanKeepsRoute ==
    [][(Len(plans') < Len(plans) /\ errorMessage' = FailedToPlan) =>
          UNCHANGED <<route, routeSummary, steps, currentStep>>]_vars

C27_LatestQueryShown ==
    (lookups = <<>> /\ timers = {}) =>
        \/ suggestions = <<>>
        \/ \E features \in GeocoderAnswers(query) :
               suggestions = combined(query, features)

\* the k-th of the members of S, a set of indices, counted from the least
Rank(S, k) == Cardinality({j \in S : j <= k})

\* list is: the entries of the major cities whose name contains q, letter
\* case aside, in the order of the cities; then the features whose
\* place_name is that of none of these entries, in the order of the answer;
\* cut after SUGGEST_LIMIT entries
IsCombinedList(list, q, features) ==
    LET cityIdx == {k \in 1..Len(MAJOR_COLOMBIAN_CITIES) :
                       includes(toLowerCase(MAJOR_COLOMBIAN_CITIES[k]),
                                toLowerCase(q))}
        featIdx == {k \in 1..Len(features) :
                       \A c \in cityIdx :
                           features[k].place_name #
                               cityEntry(MAJOR_COLOMBIAN_CITIES[c]).place_name}
        nCities == Cardinality(cityIdx)
        total == nCities + Cardinality(featIdx)
    IN  /\ Len(list) = IF total < SUGGEST_LIMIT THEN total ELSE SUGGEST_LIMIT
        /\ \A k \in cityIdx :
               Rank(cityIdx, k) <= SUGGEST_LIMIT =>
                   list[Rank(cityIdx, k)] = cityEntry(MAJOR_COLOMBIAN_CITIES[k])
        /\ \A k \in featIdx :
               nCities + Rank(featIdx, k) <= SUGGEST_LIMIT =>
                   list[nCities + Rank(featIdx, k)] = features[k]

\* C28: the list doSuggest sets from an answer of the geocoder is the major
\* cities whose name contains the query (case-insensitive) first, then the
\* features whose place_name differs from every listed city entry, in the
\* geocoder's order, cut to at most SUGGEST_LIMIT entries.
C28_CombinedList ==
    [][\A i \in 1..Len(lookups) :
           \A features \in GeocoderAnswers(lookups[i]) :
               doSuggestResolvedWith(i, features) =>
                   IsCombinedList(suggestions', lookups[i], features)]_vars

\* the list for "ca": three cities, then features, the two features named as
\* a listed city left out and the last feature cut off
C28_Witness ==
    /\ Len(suggestions) = SUGGEST_LIMIT
    /\ suggestions[3] = cityEntry(MAJOR_COLOMBIAN_CITIES[6])
    /\ suggestions[4].center # NULL
    /\ \A k \in 4..6 : /\ suggestions[k].place_name # CaliColombia
                       /\ suggestions[k].place_name # CartagenaColombia

=============================================================================
